---- MODULE Spec2Model ----
(***************************************************************************)
(* DividendEuropeanOptionTest::testGreeks                                  *)
(* (test-suite/dividendeuropeanoption.cpp) as a state machine.             *)
(*                                                                         *)
(* Numbers are fixed-point integers:                                       *)
(*   spot, option values        in units of 1e-6                           *)
(*   rates and volatilities     in units of 1e-8                           *)
(*   strikes                    in units of 0.1                            *)
(*   relative errors, tolerance in units of 1e-6                           *)
(*   dates                      as serial day numbers, 0 = the null Date() *)
(* The analytic engine is not part of this file: a pricing call returns a  *)
(* symbolic result that records the call and the market it read; the two   *)
(* places where the test branches on a number (the degenerate-value guard  *)
(* and the tolerance check) draw that number from a small set.             *)
(***************************************************************************)
EXTENDS Integers, Sequences, FiniteSets, TLC

VARIABLES
    pc,             \* position in testGreeks
    today, dcBase,  \* Date::todaysDate(), Settings::dayCounterBase()
    evalDate,       \* Settings::instance().evaluationDate()
    spot, qRate, rRate, vol,        \* the four SimpleQuote values
    i, j, k, l, m, n, p,            \* loop indices (1-based)
    exDate, dividendDates, dividends,   \* the option being tested
    u, q, r, v,                     \* locals of the innermost loop body
    value, value_p, value_m, delta_p, delta_m,  \* pricing results
    calculated, expected,           \* std::map<std::string,Real>
    it,                             \* position of the comparison iterator
    failures,       \* failures reported through REPORT_FAILURE
    compared,       \* history: Greeks compared at the current grid point
    perturbed,      \* history: a quote or the date was bumped at this grid point
    nDegenerate     \* history: grid points the engine priced at or below the threshold

vars == <<pc, today, dcBase, evalDate, spot, qRate, rRate, vol,
          i, j, k, l, m, n, p, exDate, dividendDates, dividends,
          u, q, r, v, value, value_p, value_m, delta_p, delta_m,
          calculated, expected, it, failures, compared, perturbed, nDegenerate>>

\* The engine may return a degenerate base value at most this many times in a sweep.
MaxDegenerate == 1

----------------------------------------------------------------------------
\* Calendar (serial 1 = 1 January 2004)

Years == 2004..2010

IsLeap(y) == (y % 4 = 0 /\ y % 100 # 0) \/ y % 400 = 0

MonthLength(mo, y) ==
    IF mo = 2 THEN (IF IsLeap(y) THEN 29 ELSE 28)
    ELSE IF mo \in {4, 6, 9, 11} THEN 30 ELSE 31

YearLength(y) == IF IsLeap(y) THEN 366 ELSE 365

\* days from 1 January 2004 to 1 January of y (every fourth year is leap up to 2099)
DaysBeforeYear(y) == (y - 2004) * 365 + ((y - 2001) \div 4)

\* days from 1 January to the first of the month in a year that is not leap
MonthOffset == <<0, 31, 59, 90, 120, 151, 181, 212, 243, 273, 304, 334, 365>>

DaysBeforeMonth(mo, y) == MonthOffset[mo] + (IF mo > 2 /\ IsLeap(y) THEN 1 ELSE 0)

\* Date(d, m, y)
Serial(y, mo, d) == DaysBeforeYear(y) + DaysBeforeMonth(mo, y) + d

YearOf(s) == CHOOSE y \in Years : DaysBeforeYear(y) < s /\ s <= DaysBeforeYear(y + 1)

MonthOf(s) ==
    LET y == YearOf(s)
        dd == s - DaysBeforeYear(y)
    IN  CHOOSE mo \in 1..12 : DaysBeforeMonth(mo, y) < dd /\ dd <= DaysBeforeMonth(mo + 1, y)

DayOf(s) == LET y == YearOf(s) IN s - DaysBeforeYear(y) - DaysBeforeMonth(MonthOf(s), y)

\* date + n*Months: same day of the month, clipped to the length of the target month
PlusMonths(s, nm) ==
    LET m0 == MonthOf(s) + nm - 1
        y1 == YearOf(s) + (m0 \div 12)
        m1 == (m0 % 12) + 1
        d0 == DayOf(s)
        d1 == IF d0 > MonthLength(m1, y1) THEN MonthLength(m1, y1) ELSE d0
    IN  Serial(y1, m1, d1)

\* dc.yearFraction(d1, d2): the call and the two dates it is given
yearFraction(d1, d2) == [f |-> "yearFraction", from |-> d1, to |-> d2]

\* Date(): the null date
NullDate == 0

\* The dates Date::todaysDate() is drawn from
Todays == {Serial(2004, 2, 29), Serial(2004, 11, 30), Serial(2005, 6, 15)}

\* The values Settings::dayCounterBase() is drawn from
DayCounterBases == {360, 365}

----------------------------------------------------------------------------
\* The grid

types == <<"Call", "Put">>
strikes == <<500, 995, 1000, 1005, 1500>>
underlyings == <<100000000>>
qRates == <<0, 10000000, 30000000>>
rRates == <<1000000, 5000000, 15000000>>
lengths == <<1, 2>>
vols == <<5000000, 20000000, 70000000>>

\* iteration order of std::map<std::string,Real>: keys in lexicographic order
GreekOrder == <<"delta", "gamma", "rho", "theta", "vega">>
Greeks == {GreekOrder[x] : x \in 1..Len(GreekOrder)}

tolerance == [g \in Greeks |-> 10]

None == [f |-> "none"]

----------------------------------------------------------------------------
\* Setup: the state before the first statement of the test

Init ==
    /\ pc = "begin"
    /\ today \in Todays
    /\ dcBase \in DayCounterBases
    /\ evalDate = NullDate
    /\ spot = 0 /\ qRate = 0 /\ rRate = 0 /\ vol = 0
    /\ i = 1 /\ j = 1 /\ k = 1 /\ l = 1 /\ m = 1 /\ n = 1 /\ p = 1
    /\ exDate = NullDate /\ dividendDates = <<>> /\ dividends = <<>>
    /\ u = 0 /\ q = 0 /\ r = 0 /\ v = 0
    /\ value = None /\ value_p = None /\ value_m = None
    /\ delta_p = None /\ delta_m = None
    /\ calculated = <<>> /\ expected = <<>>
    /\ it = 1
    /\ failures = {}
    /\ compared = <<>>
    /\ perturbed = FALSE
    /\ nDegenerate = 0

----------------------------------------------------------------------------
\* Helpers

\* map[key] = val on a std::map
Put(map, key, val) ==
    [x \in (DOMAIN map) \cup {key} |-> IF x = key THEN val ELSE map[x]]

\* what a pricing call reads: the four quotes and the evaluation date
Market == [spot |-> spot, q |-> qRate, r |-> rRate, vol |-> vol, date |-> evalDate]

\* the grid point being processed
GridPoint == <<i, j, k, l, m, n, p>>

\* the result of option.f(): the call, the grid point and the market it read
Priced(f) == [f |-> f, gp |-> GridPoint, at |-> Market]

\* the numbers option.NPV() may return at spot s: zero, spot*1e-5, and just above it
NPVOutcomes(s) == {0, s \div 100000, (s \div 100000) + 1}

\* the numbers relativeError(expct, calcl, u) may return for a Greek
ErrorOutcomes(g) == {0, tolerance[g], tolerance[g] + 1}

\* (plus - minus)/h
CentralDifference(plus, minus, h) == [op |-> "cdiff", plus |-> plus, minus |-> minus, h |-> h]

DividendAmount == 5

\* the schedule started at today itself
DividendStartToday(t) == t

\* Date d = today + 3*Months
DividendStart(t) == PlusMonths(t, 3)

\* for (d = ...; d < exercise->lastDate(); d += 6*Months) dividendDates.push_back(d)
RECURSIVE DividendDatesFrom(_, _)
DividendDatesFrom(d, last) ==
    IF d < last THEN <<d>> \o DividendDatesFrom(PlusMonths(d, 6), last) ELSE <<>>

\* the guard with >= for >
EntersValidationGeq(val, s) == val >= s \div 100000

\* if (value > spot->value()*1.0e-5)
EntersValidation(val, s) == val > s \div 100000

\* Real du = u*1.0e-4;  Spread dr = r*1.0e-4;  Spread dv = v*1.0e-4
du == u \div 10000
dr == r \div 10000
dv == v \div 10000

\* the year fraction of a one-sided date bump
dTOneSided == yearFraction(today, today + 1)

\* Time dT = dc.yearFraction(today-1, today+1)
dT == yearFraction(today - 1, today + 1)

----------------------------------------------------------------------------
\* Lines 90-100: the evaluation date and the four quotes

Setup ==
    /\ pc = "begin"
    /\ evalDate' = today
    /\ spot' = 0 /\ qRate' = 0 /\ rRate' = 0 /\ vol' = 0
    /\ pc' = "option"
    /\ UNCHANGED <<today, dcBase, i, j, k, l, m, n, p, exDate, dividendDates,
                   dividends, u, q, r, v, value, value_p, value_m, delta_p, delta_m,
                   calculated, expected, it, failures, compared, perturbed,
                   nDegenerate>>

\* Lines 105-128: the exercise date, the dividend schedule and the option
BuildOption ==
    /\ pc = "option"
    /\ exDate' = today + lengths[k] * dcBase
    /\ dividendDates' = DividendDatesFrom(DividendStart(today), exDate')
    /\ dividends' = [x \in 1..Len(dividendDates') |-> DividendAmount]
    /\ l' = 1 /\ m' = 1 /\ n' = 1 /\ p' = 1
    /\ pc' = "set"
    /\ UNCHANGED <<today, dcBase, evalDate, spot, qRate, rRate, vol, i, j, k,
                   u, q, r, v, value, value_p, value_m, delta_p, delta_m,
                   calculated, expected, it, failures, compared, perturbed,
                   nDegenerate>>

\* Lines 134-141: the grid point's market
SetMarket ==
    /\ pc = "set"
    /\ u' = underlyings[l] /\ q' = qRates[m] /\ r' = rRates[n] /\ v' = vols[p]
    /\ spot' = underlyings[l] /\ qRate' = qRates[m]
    /\ rRate' = rRates[n] /\ vol' = vols[p]
    /\ value' = None /\ value_p' = None /\ value_m' = None
    /\ delta_p' = None /\ delta_m' = None
    /\ compared' = <<>> /\ perturbed' = FALSE
    /\ pc' = "price"
    /\ UNCHANGED <<today, dcBase, evalDate, i, j, k, l, m, n, p, exDate,
                   dividendDates, dividends, calculated, expected, it, failures,
                   nDegenerate>>

\* calculated after the first cnt of the five assignments of lines 144-148
RECURSIVE CalculatedAfter(_, _)
CalculatedAfter(map, cnt) ==
    IF cnt = 0 THEN map
    ELSE LET g == <<"delta", "gamma", "theta", "rho", "vega">>[cnt]
         IN  Put(CalculatedAfter(map, cnt - 1), g, Priced(g))

\* Lines 143-148: the base value and the five analytic Greeks
BasePrice ==
    /\ pc = "price"
    /\ \E x \in NPVOutcomes(spot) :
          /\ ~EntersValidation(x, spot) => nDegenerate < MaxDegenerate
          /\ value' = [f |-> "NPV", gp |-> GridPoint, at |-> Market, num |-> x]
          /\ nDegenerate' = IF EntersValidation(x, spot) THEN nDegenerate
                            ELSE nDegenerate + 1
    /\ calculated' = CalculatedAfter(calculated, 5)
    /\ pc' = "guard"
    /\ UNCHANGED <<today, dcBase, evalDate, spot, qRate, rRate, vol,
                   i, j, k, l, m, n, p, exDate, dividendDates, dividends,
                   u, q, r, v, value_p, value_m, delta_p, delta_m,
                   expected, it, failures, compared, perturbed>>

\* Lines 143-148 when NPV() (cnt = 0) or the Greek after cnt assignments throws
BasePriceFails ==
    /\ pc = "price"
    /\ \E cnt \in 0..4 : calculated' = CalculatedAfter(calculated, cnt)
    /\ pc' = "caught"
    /\ UNCHANGED <<today, dcBase, evalDate, spot, qRate, rRate, vol,
                   i, j, k, l, m, n, p, exDate, dividendDates, dividends,
                   u, q, r, v, value, value_p, value_m, delta_p, delta_m,
                   expected, it, failures, compared, perturbed, nDegenerate>>

\* Line 150, condition true
GuardEnter ==
    /\ pc = "guard"
    /\ EntersValidation(value.num, spot)
    /\ pc' = "spotUp"
    /\ UNCHANGED <<today, dcBase, evalDate, spot, qRate, rRate, vol,
                   i, j, k, l, m, n, p, exDate, dividendDates, dividends,
                   u, q, r, v, value, value_p, value_m, delta_p, delta_m,
                   calculated, expected, it, failures, compared, perturbed,
                   nDegenerate>>

\* Line 150, condition false: control reaches line 205
GuardSkip ==
    /\ pc = "guard"
    /\ ~EntersValidation(value.num, spot)
    /\ pc' = "next"
    /\ UNCHANGED <<today, dcBase, evalDate, spot, qRate, rRate, vol,
                   i, j, k, l, m, n, p, exDate, dividendDates, dividends,
                   u, q, r, v, value, value_p, value_m, delta_p, delta_m,
                   calculated, expected, it, failures, compared, perturbed,
                   nDegenerate>>

----------------------------------------------------------------------------
\* Lines 151-188: the finite-difference probes

\* what no probe statement assigns
probeFrame == <<today, dcBase, i, j, k, l, m, n, p, exDate, dividendDates,
                dividends, u, q, r, v, value, calculated, it, failures, compared,
                nDegenerate>>

\* Line 153
SpotUp ==
    /\ pc = "spotUp"
    /\ spot' = u + du
    /\ perturbed' = TRUE
    /\ pc' = "spotUpPrice"
    /\ UNCHANGED <<probeFrame, evalDate, qRate, rRate, vol, value_p, value_m,
                   delta_p, delta_m, expected>>

\* Lines 154-155
SpotUpPrice ==
    /\ pc = "spotUpPrice"
    /\ value_p' = Priced("NPV")
    /\ delta_p' = Priced("delta")
    /\ pc' = "spotDown"
    /\ UNCHANGED <<probeFrame, evalDate, spot, qRate, rRate, vol, value_m,
                   delta_m, expected, perturbed>>

\* Line 156
SpotDown ==
    /\ pc = "spotDown"
    /\ spot' = u - du
    /\ pc' = "spotDownPrice"
    /\ UNCHANGED <<probeFrame, evalDate, qRate, rRate, vol, value_p, value_m,
                   delta_p, delta_m, expected, perturbed>>

\* lines 157-158 with the value read in place of the analytic delta
SpotDownPriceValueOnly ==
    /\ pc = "spotDownPrice"
    /\ value_m' = Priced("NPV")
    /\ delta_m' = Priced("NPV")
    /\ pc' = "spotRestore"
    /\ UNCHANGED <<probeFrame, evalDate, spot, qRate, rRate, vol, value_p,
                   delta_p, expected, perturbed>>

\* Lines 157-158
SpotDownPrice ==
    /\ pc = "spotDownPrice"
    /\ value_m' = Priced("NPV")
    /\ delta_m' = Priced("delta")
    /\ pc' = "spotRestore"
    /\ UNCHANGED <<probeFrame, evalDate, spot, qRate, rRate, vol, value_p,
                   delta_p, expected, perturbed>>

\* lines 160-161 without the setValue(u) of line 159
SpotRestoreMissing ==
    /\ pc = "spotRestore"
    /\ expected' = Put(Put(expected, "delta", CentralDifference(value_p, value_m, 2 * du)),
                       "gamma", CentralDifference(delta_p, delta_m, 2 * du))
    /\ pc' = "rateUp"
    /\ UNCHANGED <<probeFrame, evalDate, spot, qRate, rRate, vol, value_p, value_m,
                   delta_p, delta_m, perturbed>>

\* Lines 159-161
SpotRestore ==
    /\ pc = "spotRestore"
    /\ spot' = u
    /\ expected' = Put(Put(expected, "delta", CentralDifference(value_p, value_m, 2 * du)),
                       "gamma", CentralDifference(delta_p, delta_m, 2 * du))
    /\ pc' = "rateUp"
    /\ UNCHANGED <<probeFrame, evalDate, qRate, rRate, vol, value_p, value_m,
                   delta_p, delta_m, perturbed>>

\* Lines 164-165
RateUp ==
    /\ pc = "rateUp"
    /\ rRate' = r + dr
    /\ pc' = "rateUpPrice"
    /\ UNCHANGED <<probeFrame, evalDate, spot, qRate, vol, value_p, value_m,
                   delta_p, delta_m, expected, perturbed>>

\* Line 166
RateUpPrice ==
    /\ pc = "rateUpPrice"
    /\ value_p' = Priced("NPV")
    /\ pc' = "rateDown"
    /\ UNCHANGED <<probeFrame, evalDate, spot, qRate, rRate, vol, value_m,
                   delta_p, delta_m, expected, perturbed>>

\* Line 167
RateDown ==
    /\ pc = "rateDown"
    /\ rRate' = r - dr
    /\ pc' = "rateDownPrice"
    /\ UNCHANGED <<probeFrame, evalDate, spot, qRate, vol, value_p, value_m,
                   delta_p, delta_m, expected, perturbed>>

\* Line 168
RateDownPrice ==
    /\ pc = "rateDownPrice"
    /\ value_m' = Priced("NPV")
    /\ pc' = "rateRestore"
    /\ UNCHANGED <<probeFrame, evalDate, spot, qRate, rRate, vol, value_p,
                   delta_p, delta_m, expected, perturbed>>

\* line 170 without the setValue(r) of line 169
RateRestoreMissing ==
    /\ pc = "rateRestore"
    /\ expected' = Put(expected, "rho", CentralDifference(value_p, value_m, 2 * dr))
    /\ pc' = "volUp"
    /\ UNCHANGED <<probeFrame, evalDate, spot, qRate, rRate, vol, value_p, value_m,
                   delta_p, delta_m, perturbed>>

\* Lines 169-170
RateRestore ==
    /\ pc = "rateRestore"
    /\ rRate' = r
    /\ expected' = Put(expected, "rho", CentralDifference(value_p, value_m, 2 * dr))
    /\ pc' = "volUp"
    /\ UNCHANGED <<probeFrame, evalDate, spot, qRate, vol, value_p, value_m,
                   delta_p, delta_m, perturbed>>

\* Lines 173-174
VolUp ==
    /\ pc = "volUp"
    /\ vol' = v + dv
    /\ pc' = "volUpPrice"
    /\ UNCHANGED <<probeFrame, evalDate, spot, qRate, rRate, value_p, value_m,
                   delta_p, delta_m, expected, perturbed>>

\* Line 175
VolUpPrice ==
    /\ pc = "volUpPrice"
    /\ value_p' = Priced("NPV")
    /\ pc' = "volDown"
    /\ UNCHANGED <<probeFrame, evalDate, spot, qRate, rRate, vol, value_m,
                   delta_p, delta_m, expected, perturbed>>

\* Line 176
VolDown ==
    /\ pc = "volDown"
    /\ vol' = v - dv
    /\ pc' = "volDownPrice"
    /\ UNCHANGED <<probeFrame, evalDate, spot, qRate, rRate, value_p, value_m,
                   delta_p, delta_m, expected, perturbed>>

\* Line 177
VolDownPrice ==
    /\ pc = "volDownPrice"
    /\ value_m' = Priced("NPV")
    /\ pc' = "volRestore"
    /\ UNCHANGED <<probeFrame, evalDate, spot, qRate, rRate, vol, value_p,
                   delta_p, delta_m, expected, perturbed>>

\* Lines 178-179
VolRestore ==
    /\ pc = "volRestore"
    /\ vol' = v
    /\ expected' = Put(expected, "vega", CentralDifference(value_p, value_m, 2 * dv))
    /\ pc' = "dateMinus"
    /\ UNCHANGED <<probeFrame, evalDate, spot, qRate, rRate, value_p, value_m,
                   delta_p, delta_m, perturbed>>

\* Lines 182-183
DateMinus ==
    /\ pc = "dateMinus"
    /\ evalDate' = today - 1
    /\ pc' = "dateMinusPrice"
    /\ UNCHANGED <<probeFrame, spot, qRate, rRate, vol, value_p, value_m,
                   delta_p, delta_m, expected, perturbed>>

\* Line 184
DateMinusPrice ==
    /\ pc = "dateMinusPrice"
    /\ value_m' = Priced("NPV")
    /\ pc' = "datePlus"
    /\ UNCHANGED <<probeFrame, evalDate, spot, qRate, rRate, vol, value_p,
                   delta_p, delta_m, expected, perturbed>>

\* Line 185
DatePlus ==
    /\ pc = "datePlus"
    /\ evalDate' = today + 1
    /\ pc' = "datePlusPrice"
    /\ UNCHANGED <<probeFrame, spot, qRate, rRate, vol, value_p, value_m,
                   delta_p, delta_m, expected, perturbed>>

\* Line 186
DatePlusPrice ==
    /\ pc = "datePlusPrice"
    /\ value_p' = Priced("NPV")
    /\ pc' = "dateRestore"
    /\ UNCHANGED <<probeFrame, evalDate, spot, qRate, rRate, vol, value_m,
                   delta_p, delta_m, expected, perturbed>>

\* Lines 187-188, and the iterator of line 192 set to calculated.begin()
DateRestore ==
    /\ pc = "dateRestore"
    /\ evalDate' = today
    /\ expected' = Put(expected, "theta", CentralDifference(value_p, value_m, dT))
    /\ it' = 1
    /\ pc' = "compare"
    /\ UNCHANGED <<today, dcBase, i, j, k, l, m, n, p, exDate, dividendDates,
                   dividends, u, q, r, v, value, calculated, failures, compared,
                   nDegenerate, spot, qRate, rRate, vol, value_p, value_m,
                   delta_p, delta_m, perturbed>>

\* the positions at which the next statement is a pricing call of a probe
ProbePricingPcs == {"spotUpPrice", "spotDownPrice", "rateUpPrice", "rateDownPrice",
                    "volUpPrice", "volDownPrice", "dateMinusPrice", "datePlusPrice"}

\* option.NPV() or option.delta() of a probe throws: control leaves the try block
ProbePriceFails ==
    /\ pc \in ProbePricingPcs
    /\ pc' = "caught"
    /\ UNCHANGED <<probeFrame, evalDate, spot, qRate, rRate, vol, value_p, value_m,
                   delta_p, delta_m, expected, perturbed>>

----------------------------------------------------------------------------
\* Lines 191-204: the comparison

\* expected[greek] and calculated[greek]: operator[] of std::map inserts 0.0
\* under a key that is missing
Lookup(map, key) == IF key \in DOMAIN map THEN map[key] ELSE [f |-> "zero"]
Touched(map, key) == IF key \in DOMAIN map THEN map ELSE Put(map, key, [f |-> "zero"])

\* what no iteration of the comparison loop assigns
compareFrame == <<today, dcBase, evalDate, spot, qRate, rRate, vol,
                  i, j, k, l, m, n, p, exDate, dividendDates, dividends,
                  u, q, r, v, value, value_p, value_m, delta_p, delta_m,
                  calculated, perturbed, nDegenerate>>

\* One iteration with error <= tol, then ++it and the test of line 193
ComparePasses ==
    /\ pc = "compare"
    /\ LET greek == GreekOrder[it]
       IN  /\ \E error \in ErrorOutcomes(greek) : ~(error > tolerance[greek])
           /\ expected' = Touched(expected, greek)
           /\ compared' = Append(compared, [greek |-> greek, gp |-> GridPoint,
                                            expct |-> Lookup(expected, greek),
                                            calcl |-> Lookup(calculated, greek)])
    /\ it' = it + 1
    /\ pc' = IF it + 1 > Cardinality(DOMAIN calculated) THEN "next" ELSE "compare"
    /\ UNCHANGED <<compareFrame, failures>>

\* One iteration with error > tol: REPORT_FAILURE is BOOST_FAIL, which reports the
\* failure and throws, so control leaves the try block
CompareFails ==
    /\ pc = "compare"
    /\ LET greek == GreekOrder[it]
       IN  /\ \E error \in ErrorOutcomes(greek) : error > tolerance[greek]
           /\ expected' = Touched(expected, greek)
           /\ compared' = Append(compared, [greek |-> greek, gp |-> GridPoint,
                                            expct |-> Lookup(expected, greek),
                                            calcl |-> Lookup(calculated, greek)])
           /\ failures' = failures \cup {<<GridPoint, greek>>}
    /\ pc' = "caught"
    /\ UNCHANGED <<compareFrame, it>>

----------------------------------------------------------------------------
\* Lines 102-104 and 130-133: the loop increments

\* what no loop increment assigns
loopFrame == <<today, dcBase, evalDate, spot, qRate, rRate, vol, exDate,
               dividendDates, dividends, u, q, r, v, value, value_p, value_m,
               delta_p, delta_m, calculated, expected, it, failures, compared,
               perturbed, nDegenerate>>

\* p++, n++, m++ or l++ with the inner indices starting again
NextQuadruple ==
    /\ pc = "next"
    /\ \/ p < Len(vols) /\ p' = p + 1 /\ UNCHANGED <<l, m, n>>
       \/ p = Len(vols) /\ n < Len(rRates) /\ n' = n + 1 /\ p' = 1 /\ UNCHANGED <<l, m>>
       \/ p = Len(vols) /\ n = Len(rRates) /\ m < Len(qRates)
            /\ m' = m + 1 /\ n' = 1 /\ p' = 1 /\ UNCHANGED l
       \/ p = Len(vols) /\ n = Len(rRates) /\ m = Len(qRates) /\ l < Len(underlyings)
            /\ l' = l + 1 /\ m' = 1 /\ n' = 1 /\ p' = 1
    /\ pc' = "set"
    /\ UNCHANGED <<loopFrame, i, j, k>>

\* the four inner loops have reached their last element
InnerLoopsDone ==
    p = Len(vols) /\ n = Len(rRates) /\ m = Len(qRates) /\ l = Len(underlyings)

\* k++, j++ or i++ with the inner indices starting again
NextTriple ==
    /\ pc = "next"
    /\ InnerLoopsDone
    /\ \/ k < Len(lengths) /\ k' = k + 1 /\ UNCHANGED <<i, j>>
       \/ k = Len(lengths) /\ j < Len(strikes) /\ j' = j + 1 /\ k' = 1 /\ UNCHANGED i
       \/ k = Len(lengths) /\ j = Len(strikes) /\ i < Len(types)
            /\ i' = i + 1 /\ j' = 1 /\ k' = 1
    /\ pc' = "option"
    /\ UNCHANGED <<loopFrame, l, m, n, p>>

\* the outermost loop ends: control reaches line 214
SweepEnds ==
    /\ pc = "next"
    /\ InnerLoopsDone
    /\ k = Len(lengths) /\ j = Len(strikes) /\ i = Len(types)
    /\ pc' = "teardown"
    /\ UNCHANGED <<loopFrame, i, j, k, l, m, n, p>>

----------------------------------------------------------------------------
\* Lines 63-65 and 214: QL_TEST_TEARDOWN

\* what teardown() leaves alone
teardownFrame == <<today, dcBase, spot, qRate, rRate, vol, i, j, k, l, m, n, p,
                   exDate, dividendDates, dividends, u, q, r, v, value, value_p,
                   value_m, delta_p, delta_m, calculated, expected, it, failures,
                   compared, perturbed, nDegenerate>>

\* the test body ended normally: teardown()
Teardown ==
    /\ pc = "teardown"
    /\ evalDate' = NullDate
    /\ pc' = "done"
    /\ UNCHANGED teardownFrame

\* the test body threw: teardown(), and the exception goes on to the test runner
TeardownOnFailure ==
    /\ pc = "caught"
    /\ evalDate' = NullDate
    /\ pc' = "rethrown"
    /\ UNCHANGED teardownFrame

----------------------------------------------------------------------------

Next ==
    \/ Setup \/ BuildOption \/ SetMarket
    \/ BasePrice \/ BasePriceFails \/ GuardEnter \/ GuardSkip
    \/ SpotUp \/ SpotUpPrice \/ SpotDown \/ SpotDownPrice \/ SpotRestore
    \/ RateUp \/ RateUpPrice \/ RateDown \/ RateDownPrice \/ RateRestore
    \/ VolUp \/ VolUpPrice \/ VolDown \/ VolDownPrice \/ VolRestore
    \/ DateMinus \/ DateMinusPrice \/ DatePlus \/ DatePlusPrice \/ DateRestore
    \/ ProbePriceFails
    \/ ComparePasses \/ CompareFails
    \/ NextQuadruple \/ NextTriple \/ SweepEnds
    \/ Teardown \/ TeardownOnFailure

Spec == Init /\ [][Next]_vars

----------------------------------------------------------------------------
\* Vocabulary of the properties

\* the positions inside the block of line 150, in program order
BlockOrder == <<"spotUp", "spotUpPrice", "spotDown", "spotDownPrice", "spotRestore",
                "rateUp", "rateUpPrice", "rateDown", "rateDownPrice", "rateRestore",
                "volUp", "volUpPrice", "volDown", "volDownPrice", "volRestore",
                "dateMinus", "dateMinusPrice", "datePlus", "datePlusPrice",
                "dateRestore", "compare">>

BlockPcs == {BlockOrder[x] : x \in 1..Len(BlockOrder)}

PosOf(label) == CHOOSE x \in 1..Len(BlockOrder) : BlockOrder[x] = label

\* the statement at `label` has been executed at the current grid point
Past(label) ==
    \/ pc \in BlockPcs /\ PosOf(pc) > PosOf(label)
    \/ pc = "next" /\ perturbed

\* the base state of the current grid point, as the grid defines it
BaseMarket == [spot |-> underlyings[l], q |-> qRates[m], r |-> rRates[n],
               vol |-> vols[p], date |-> today]

\* a pricing result of call f at this grid point with the market `mkt`
ResultAt(f, mkt) == [f |-> f, gp |-> GridPoint, at |-> mkt]

\* the grid point was skipped by the guard of line 150
Skipped == pc = "next" /\ ~perturbed /\ compared = <<>>

\* the guard of line 150 has decided for the current grid point
Decided == pc \in BlockPcs \cup {"next"}

\* the base value is the threshold spot*1e-5 of the current grid point
Threshold == underlyings[l] \div 100000

\* the Greeks compared so far at the current grid point, in order
ComparedGreeks == [x \in 1..Len(compared) |-> compared[x].greek]

----------------------------------------------------------------------------
\* C1: after the spot, rate, volatility and date probes have completed, the
\* perturbed quote or date holds again the stored original (u, r, v, today), and at
\* the end of a grid point (its last comparison made, or the one that reported a
\* failure) the market is the base state set at its start, which is also the market
\* the base pricing read.
C1_RestoredAfterProbes ==
    /\ Past("spotRestore") => spot = u /\ u = underlyings[l]
    /\ Past("rateRestore") => rRate = r /\ r = rRates[n]
    /\ Past("volRestore") => vol = v /\ v = vols[p]
    /\ Past("dateRestore") => evalDate = today
    /\ pc = "next" => Market = BaseMarket /\ Market = value.at
                      /\ <<u, q, r, v>> = <<underlyings[l], qRates[m], rRates[n], vols[p]>>
    /\ (pc = "caught" /\ compared # <<>>) => Market = BaseMarket /\ Market = value.at

\* a grid point that went through all four probes and the comparison has ended
C1_Witness == pc = "next" /\ perturbed /\ Len(compared) = 5

\* a pricing call of a probe threw and control is in the handler of line 214
FailedInProbe == pc = "caught" /\ perturbed /\ compared = <<>>

\* C2 (as claimed): when a pricing call of a probe has failed, spot, rate,
\* volatility and the evaluation date hold their original values (u, r, v, today)
\* once control has left the probe.
C2_RestoredOnFailure ==
    FailedInProbe => spot = u /\ rRate = r /\ vol = v /\ evalDate = today

\* C3 (as claimed): a recorded tolerance violation does not abort the sweep.
C3_FailureDoesNotAbort ==
    failures # {} => pc \notin {"caught", "rethrown"}

DiffersFromBase(mkt) ==
    {x \in {"spot", "r", "vol", "date"} : mkt[x] # BaseMarket[x]}

\* the input each probe pricing call is made for
ProbedInput ==
    [x \in ProbePricingPcs |->
        IF x \in {"spotUpPrice", "spotDownPrice"} THEN "spot"
        ELSE IF x \in {"rateUpPrice", "rateDownPrice"} THEN "r"
        ELSE IF x \in {"volUpPrice", "volDownPrice"} THEN "vol" ELSE "date"]

\* C5: at every pricing call of a probe exactly the probed input differs from its
\* base value, the three other inputs and the dividend yield are at base, and every
\* result held in value_p, value_m, delta_p, delta_m was read from such a market.
C5_OneInputPerturbed ==
    /\ pc \in ProbePricingPcs =>
          DiffersFromBase(Market) = {ProbedInput[pc]} /\ qRate = BaseMarket.q
    /\ pc \in BlockPcs \cup {"next", "caught"} =>
          \A res \in {value_p, value_m, delta_p, delta_m} :
              res # None => /\ res.gp = GridPoint
                            /\ Cardinality(DiffersFromBase(res.at)) = 1
                            /\ res.at.q = BaseMarket.q

\* the last pricing call of the date probe, with the date one day ahead
C5_Witness == pc = "datePlusPrice" /\ evalDate = today + 1 /\ value_m # None

\* the positions at which the next statement prices the option
\* the positions at which the next statement prices the option
PricingPcs == {"price"} \cup ProbePricingPcs

\* the option of the current (type, strike, maturity) triple exists
OptionBuilt == pc \notin {"begin", "option"}

\* the schedule as lines 105-116 build it for the current maturity length
ScheduleFromLoop ==
    /\ exDate = today + lengths[k] * dcBase
    /\ Len(dividendDates) >= 1
    /\ dividendDates[1] = PlusMonths(today, 3)
    /\ \A x \in 2..Len(dividendDates) :
           dividendDates[x] = PlusMonths(dividendDates[x - 1], 6)
    /\ PlusMonths(dividendDates[Len(dividendDates)], 6) >= exDate

\* the schedule against the option's life and the evaluation date in force
ScheduleInsideLife ==
    /\ Len(dividendDates) >= 1 /\ Len(dividends) = Len(dividendDates)
    /\ \A x \in 1..Len(dividendDates) :
           /\ dividendDates[x] < exDate
           /\ dividends[x] = 5
           /\ pc \in PricingPcs => evalDate < dividendDates[x]
    /\ pc \in PricingPcs => evalDate \in {today - 1, today, today + 1}

\* C7: the schedule of the current option starts three months after today, steps by
\* six months, runs up to but not including the maturity, pays the same positive
\* amount on every date, and at every pricing call (base and probes, the date probes
\* included) every dividend date lies strictly between the evaluation date in force
\* and the maturity.
C7_ScheduleInsideLife ==
    /\ [](OptionBuilt => ScheduleInsideLife)
    /\ [][IF pc = "option" THEN ScheduleFromLoop'
          ELSE UNCHANGED <<exDate, dividendDates, dividends, today, dcBase>>]_vars

\* a two-period option priced with the evaluation date one day ahead
C7_Witness ==
    pc = "datePlusPrice" /\ evalDate = today + 1 /\ lengths[k] = 2
    /\ Len(dividendDates) = 4

\* the base state with the spot at s
SpotBumped(s) == [BaseMarket EXCEPT !.spot = s]

\* C8: with du = u*1e-4, value_p and delta_p are read at spot u+du and value_m and
\* delta_m at spot u-du, everything else at base; expected delta is the central
\* difference of the two values and expected gamma the central difference of the two
\* analytic deltas, both over 2*du.
C8_DeltaGammaFromSpotProbes ==
    LET h == underlyings[l] \div 10000
        up == SpotBumped(underlyings[l] + h)
        down == SpotBumped(underlyings[l] - h)
    IN  /\ pc = "spotDown" => value_p = ResultAt("NPV", up) /\ delta_p = ResultAt("delta", up)
        /\ pc = "spotRestore" =>
               /\ value_p = ResultAt("NPV", up) /\ delta_p = ResultAt("delta", up)
               /\ value_m = ResultAt("NPV", down) /\ delta_m = ResultAt("delta", down)
        /\ Past("spotRestore") =>
               /\ expected["delta"] = CentralDifference(ResultAt("NPV", up),
                                                        ResultAt("NPV", down), 2 * h)
               /\ expected["gamma"] = CentralDifference(ResultAt("delta", up),
                                                        ResultAt("delta", down), 2 * h)

\* the comparison has reached gamma
C8_Witness == pc = "compare" /\ GreekOrder[it] = "gamma" /\ "gamma" \in DOMAIN expected

\* the base state with the evaluation date at d
DateBumped(d) == [BaseMarket EXCEPT !.date = d]

\* C9: the minus value of theta is priced with the evaluation date today-1 and the
\* plus value with today+1, all quotes at base, for either maturity length; expected
\* theta is their difference over yearFraction(today-1, today+1);
\* the evaluation date is today again before the comparison.
C9_ThetaFromDateProbes ==
    /\ pc = "datePlus" => value_m = ResultAt("NPV", DateBumped(today - 1))
    /\ pc = "dateRestore" =>
           /\ value_m = ResultAt("NPV", DateBumped(today - 1))
           /\ value_p = ResultAt("NPV", DateBumped(today + 1))
    /\ Past("dateRestore") =>
           /\ expected["theta"] =
                  CentralDifference(ResultAt("NPV", DateBumped(today + 1)),
                                    ResultAt("NPV", DateBumped(today - 1)),
                                    [f |-> "yearFraction", from |-> today - 1,
                                     to |-> today + 1])
           /\ evalDate = today

\* theta is being compared for a two-period option
C9_Witness == pc = "compare" /\ GreekOrder[it] = "theta" /\ lengths[k] = 2

\* a pricing result, or a difference of two, computed at grid point gp
ComputedAt(x, gp) ==
    IF "gp" \in DOMAIN x THEN x.gp = gp
    ELSE "op" \in DOMAIN x /\ x.plus # None /\ x.minus # None
         /\ x.plus.gp = gp /\ x.minus.gp = gp

\* both values of a comparison were computed at the grid point it was made at
FreshEntry(c) == ComputedAt(c.expct, c.gp) /\ ComputedAt(c.calcl, c.gp)

\* C10 (as claimed): once the sweep has left a grid point that was not skipped, each
\* of the five Greeks has been compared exactly once there, with an expected and a
\* calculated value computed at that grid point.
C10_EachGreekComparedOnce ==
    (perturbed /\ pc \in {"next", "caught", "rethrown"} /\ compared # <<>>) =>
        /\ ComparedGreeks = GreekOrder
        /\ \A x \in 1..Len(compared) : FreshEntry(compared[x])

\* The part of C10 that does not depend on the sweep going on after a failure: no
\* Greek is compared twice at a grid point, a grid point the sweep moves past has all
\* five compared, and both values of every comparison were computed there.
FreshComparison ==
    /\ Len(compared) <= Len(GreekOrder)
    /\ \A x \in 1..Len(compared) :
           /\ compared[x].greek = GreekOrder[x]
           /\ FreshEntry(compared[x])
    /\ (pc = "next" /\ perturbed) => ComparedGreeks = GreekOrder

====
